---- MODULE Spec2Model ----
(***************************************************************************)
(* Model of expand_openings.py: the coverage-cutoff selection of           *)
(* top_moves (with its IEEE-754 double arithmetic), the rating-band        *)
(* choice, and the iteration loop of expand_openings.                      *)
(*                                                                         *)
(* Spec / LiveSpec : one run of expand_openings (LiveSpec adds fairness)   *)
(* BandSpec        : one call of top_moves with any min_rating             *)
(* CutoffSpec      : one call of top_moves as expand_openings makes it,    *)
(*                   on any response of the explorer                       *)
(*                                                                         *)
(* Abstractions.  A line (a space-separated string of SAN moves) is the    *)
(* sequence of its tokens: line.split() is the sequence itself and         *)
(* line + " " + san is Append.  A SAN move is a number in Sans.  The board *)
(* is reduced to what the code reads from it, the side to move, which is   *)
(* the parity of the number of plies replayed; chess legality is not       *)
(* modelled (every token is playable everywhere).                          *)
(***************************************************************************)
EXTENDS Integers, Sequences, FiniteSets, TLC

VARIABLES
    initial_openings, player, iterations,   \* arguments of expand_openings
    openings, new_lines, i, pos, candidates, \* its locals; pos = index of `line`
    pc, result, failure,                    \* control point, return value, raised exception
    prev, factors, prev_factors, calls,     \* history: previous generation, per-line branch
                                            \* factors of this/previous iteration, external
                                            \* calls made for the current line
    tm_pc, tm_min_rating, tm_url, tm_band, tm_moves, tm_out, tm_err  \* one call of top_moves

expand_vars == <<initial_openings, player, iterations, openings, new_lines, i, pos,
                 candidates, pc, result, failure, prev, factors, prev_factors, calls>>
tm_vars == <<tm_pc, tm_min_rating, tm_url, tm_band, tm_moves, tm_out, tm_err>>
vars == <<expand_vars, tm_vars>>

None == "None"        \* no url, no exception
Nothing == <<>>       \* an optional value that is absent (Python None)
Some(x) == <<x>>      \* an optional value that is present

(***************************************************************************)
(* Bounds                                                                  *)
(***************************************************************************)
MaxSans == 2        \* distinct SAN tokens
MaxInitLines == 2   \* lines in initial_openings
MaxInitPlies == 2   \* plies of an initial line
MaxIter == 2        \* iterations argument
MaxBranch == 2      \* moves in a provider response seen by expand_openings
MaxWhite == 2       \* per-move result counts in a provider response
MaxDraws == 1
MaxBlack == 1
MaxShort == 3       \* responses of up to MaxShort moves take every result triple
MaxCands == 10      \* longer responses, up to MaxCands moves, take the two heaviest triples
RatingMargin == 1   \* min_rating ranges over the values within RatingMargin of 0 and of a band

Sans == 1..MaxSans

(***************************************************************************)
(* Program constants                                                       *)
(***************************************************************************)
RATING_BANDS == <<1600, 1800, 2000, 2500>>
LICHESS_MASTERS == "https://explorer.lichess.ovh/master"
LICHESS_DB == "https://explorer.lichess.ovh/lichess"
WHITE == TRUE
BLACK == FALSE
DefaultBand == 2500
ExpandMinRating == 2500
CoveragePercent == 60     \* the literal 0.6, in hundredths
PlayerTimeLimit == 5      \* get_best_move default time_limit 0.5 s, in tenths of a second
FallbackTimeLimit == 10   \* time_limit=1, in tenths of a second

(***************************************************************************)
(* IEEE-754 binary64 arithmetic on the values top_moves computes.          *)
(* A double v in [0, 2) that is within a few ulps of a multiple of 1/100   *)
(* is the pair [k, e] with  v * 25 * 2^59 = k * 2^57 + e : k is the        *)
(* number of hundredths and e the (small) representation error.  Every     *)
(* such double is a multiple of 2^-59, so V = (k * 2^57 + e) / 25 is an    *)
(* integer and V mod 2^n = (41 * e) mod 2^n for n <= 8 (25 * 41 = 1025).   *)
(***************************************************************************)
RECURSIVE Pow2(_)
Pow2(n) == IF n = 0 THEN 1 ELSE 2 * Pow2(n - 1)

RECURSIVE Pow2Mod25(_)
Pow2Mod25(n) == IF n = 0 THEN 1 ELSE (2 * Pow2Mod25(n - 1)) % 25

\* smallest m >= 0 with k/100 + e' >= 2^-m, e' the error term (k >= 1)
RECURSIVE Binade(_, _, _)
Binade(k, e, m) ==
    IF k * Pow2(m) > 100 \/ (k * Pow2(m) = 100 /\ e >= 0) THEN m ELSE Binade(k, e, m + 1)

\* the double nearest to k/100: what the division by 100 inside np.round yields
Dbl(k) ==
    IF k = 0 THEN [k |-> 0, e |-> 0]
    ELSE LET j == 7 - Binade(k, 0, 0)
             rho == (k * Pow2Mod25(57 - j)) % 25
         IN  [k |-> k, e |-> IF rho <= 12 THEN -(rho * Pow2(j)) ELSE (25 - rho) * Pow2(j)]

\* a + b in binary64: the exact sum rounded to nearest, ties to even
FAdd(a, b) ==
    LET k == a.k + b.k
        e == a.e + b.e
    IN  IF k = 0 THEN [k |-> 0, e |-> 0]
        ELSE LET j == 7 - Binade(k, e, 0)
             IN  IF j <= 0 THEN [k |-> k, e |-> e]
                 ELSE LET r == (41 * e) % Pow2(j)
                          half == Pow2(j - 1)
                          down == [k |-> k, e |-> e - 25 * r]
                          up == [k |-> k, e |-> e + 25 * (Pow2(j) - r)]
                      IN  IF r < half THEN down
                          ELSE IF r > half THEN up
                          ELSE IF (41 * e) % Pow2(j + 1) = half THEN down ELSE up

\* a >= b in binary64
FGe(a, b) == a.k > b.k \/ (a.k = b.k /\ a.e >= b.e)

\* floor(log2(num/den)) for num/den in [2^-8, 2^7)
RECURSIVE FloorLog2(_, _, _)
FloorLog2(num, den, b) ==
    IF num * Pow2(7 - b) < den * 128 THEN b - 1 ELSE FloorLog2(num, den, b + 1)

\* rint(fl(fl((2n+1)/200) * 100)) = n + 1 : how np.round resolves a share that is
\* exactly half-way between n and n + 1 hundredths.  The quotient (2n+1)/200 is
\* off by delta/25 ulp; multiplied by 100 the error reaches the product only when
\* quotient and product lie 6 binades apart and |delta| > 8.
TieRoundsUp(n) ==
    LET m == 2 * n + 1
        b == FloorLog2(m, 2, -7)
        bx == FloorLog2(m, 200, -7)
        rho == (m * Pow2Mod25(49 - bx)) % 25
    IN  IF rho = 0 \/ bx # b - 6 THEN n % 2 = 1
        ELSE IF rho \in 9..12 THEN FALSE
        ELSE IF rho \in 13..16 THEN TRUE
        ELSE n % 2 = 1

\* np.round(games / total_games, 2), as a number of hundredths (total_games > 0)
RoundPercent(games, total_games) ==
    LET q == (100 * games) \div total_games
        r == (100 * games) % total_games
    IN  IF 2 * r < total_games THEN q
        ELSE IF 2 * r > total_games THEN q + 1
        ELSE IF TieRoundsUp(q) THEN q + 1 ELSE q

(***************************************************************************)
(* top_moves                                                               *)
(***************************************************************************)
\* the move records of an explorer response: move k of the response is sans[k]
\* with the result counts outcomes[k] = <<white, draws, black>>
Response(sans, outcomes) ==
    [k \in 1..Len(outcomes) |->
        [san |-> sans[k], white |-> outcomes[k][1], draws |-> outcomes[k][2],
         black |-> outcomes[k][3]]]

RECURSIVE SeqsUpTo(_, _)
SeqsUpTo(S, n) ==
    IF n = 0 THEN {<<>>}
    ELSE LET shorter == SeqsUpTo(S, n - 1)
         IN  shorter \cup {Append(q, x) : q \in {t \in shorter : Len(t) = n - 1}, x \in S}

Injective(q) == \A a, b \in DOMAIN q : a # b => q[a] # q[b]

\* faulty variant: the filter written r > min_rating
BandsAbove(min_rating) ==
    {RATING_BANDS[n] : n \in {x \in DOMAIN RATING_BANDS : RATING_BANDS[x] > min_rating}}

\* min_rating is not None: the generator of line 29 filtered by r >= min_rating
BandsAtLeast(min_rating) ==
    {RATING_BANDS[n] : n \in {x \in DOMAIN RATING_BANDS : RATING_BANDS[x] >= min_rating}}

Min(S) == CHOOSE x \in S : \A y \in S : x <= y

\* min() of an empty generator raises ValueError
BandRaises(min_rating) ==
    min_rating # 0 /\ BandsAtLeast(min_rating) = {}

Band(min_rating) ==
    IF min_rating # 0 THEN Min(BandsAtLeast(min_rating)) ELSE DefaultBand

\* m["games"] = m["white"] + m["draws"] + m["black"]
Games(m) == m.white + m.draws + m.black

RECURSIVE SumGames(_)
SumGames(moves) ==
    IF moves = <<>> THEN 0 ELSE Games(Head(moves)) + SumGames(Tail(moves))

\* m["games"] / total_games raises ZeroDivisionError for the first move
DivisionRaises(moves) == moves # <<>> /\ SumGames(moves) = 0

\* the two annotation loops: every record gains games and percent
Annotate(moves) ==
    [k \in DOMAIN moves |->
        [san |-> moves[k].san, white |-> moves[k].white, draws |-> moves[k].draws,
         black |-> moves[k].black, games |-> Games(moves[k]),
         percent |-> Dbl(RoundPercent(Games(moves[k]), SumGames(moves)))]]

\* sorted(..., reverse=True) is stable: m goes after every record with games >= its own
RECURSIVE InsertByGames(_, _)
InsertByGames(sorted, m) ==
    IF sorted = <<>> THEN <<m>>
    ELSE IF Head(sorted).games >= m.games
         THEN <<Head(sorted)>> \o InsertByGames(Tail(sorted), m)
         ELSE <<m>> \o sorted

RECURSIVE SortByGames(_)
SortByGames(moves) ==
    IF moves = <<>> THEN <<>>
    ELSE InsertByGames(SortByGames(SubSeq(moves, 1, Len(moves) - 1)), moves[Len(moves)])

\* moves.index(m): the first position holding a record equal to m
Index(moves, m) == Min({k \in DOMAIN moves : moves[k] = m})

\* s >= 0.6
ReachesCoverage(s) == FGe(s, Dbl(CoveragePercent))

\* the loop of lines 45-49, entered at record k with the running sum s
RECURSIVE CutoffLoop(_, _, _)
CutoffLoop(moves, k, s) ==
    IF k > Len(moves) THEN moves
    ELSE LET s2 == FAdd(s, moves[k].percent)
         IN  IF ReachesCoverage(s2) THEN SubSeq(moves, 1, Index(moves, moves[k]))
             ELSE CutoffLoop(moves, k + 1, s2)

\* lines 37-49 applied to data["moves"] (not DivisionRaises)
top_moves(moves) == CutoffLoop(SortByGames(Annotate(moves)), 1, Dbl(0))

(***************************************************************************)
(* One call of top_moves, step by step                                     *)
(***************************************************************************)
Outcomes == (0..MaxWhite) \X (0..MaxDraws) \X (0..MaxBlack)
HeavyOutcomes == {<<MaxWhite, MaxDraws, MaxBlack>>, <<MaxWhite - 1, MaxDraws, MaxBlack>>}

\* data.get("moves", []) of the responses the explorer may send
TMResponses ==
    {Response([k \in 1..Len(q) |-> k], q) :
        q \in SeqsUpTo(Outcomes, MaxShort)
              \cup {h \in SeqsUpTo(HeavyOutcomes, MaxCands) : Len(h) > MaxShort}}

ExpandOutcomes == {<<0, 0, 0>>, <<1, 0, 0>>, <<1, 1, 0>>}

\* the responses the explorer may send for a position: distinct moves, any order
ExpandResponses ==
    UNION {{Response(sans, q) :
                q \in {o \in SeqsUpTo(ExpandOutcomes, MaxBranch) : Len(o) = Len(sans)}} :
            sans \in {t \in SeqsUpTo(Sans, MaxBranch) : Injective(t)}}

MinRatings ==
    {b + d : b \in {0} \cup {RATING_BANDS[n] : n \in DOMAIN RATING_BANDS},
                         d \in (0 - RatingMargin)..RatingMargin}

TMIdle ==
    /\ tm_pc = "idle" /\ tm_min_rating = Nothing /\ tm_url = None /\ tm_band = Nothing
    /\ tm_moves = <<>> /\ tm_out = <<>> /\ tm_err = None

\* lines 32-33: min_rating is None
TMCallMasters ==
    /\ tm_pc = "idle"
    /\ tm_min_rating' = Nothing
    /\ tm_url' = LICHESS_MASTERS
    /\ tm_band' = Nothing
    /\ tm_pc' = "request"
    /\ UNCHANGED <<tm_moves, tm_out, tm_err, expand_vars>>

\* lines 27-31: min_rating given and a band is found
TMCallRatedWith(ratings) ==
    /\ tm_pc = "idle"
    /\ \E r \in ratings :
        /\ ~BandRaises(r)
        /\ tm_min_rating' = Some(r)
        /\ tm_band' = Some(Band(r))
    /\ tm_url' = LICHESS_DB
    /\ tm_pc' = "request"
    /\ UNCHANGED <<tm_moves, tm_out, tm_err, expand_vars>>

\* any min_rating
TMCallRated == TMCallRatedWith(MinRatings)

\* the call expand_openings makes: top_moves(fen, min_rating=2500)
TMCallFromExpand == TMCallRatedWith({ExpandMinRating})

\* lines 28-30: min() of the empty generator raises before any request
TMCallRaises ==
    /\ tm_pc = "idle"
    /\ \E r \in MinRatings :
        /\ BandRaises(r)
        /\ tm_min_rating' = Some(r)
    /\ tm_err' = "ValueError"
    /\ tm_pc' = "raised"
    /\ UNCHANGED <<tm_url, tm_band, tm_moves, tm_out, expand_vars>>

\* lines 34-37: the request succeeds
TMResponseOf(responses) ==
    /\ tm_pc = "request"
    /\ \E resp \in responses : tm_moves' = resp
    /\ tm_pc' = "select"
    /\ UNCHANGED <<tm_min_rating, tm_url, tm_band, tm_out, tm_err, expand_vars>>

TMResponse == TMResponseOf(TMResponses)

TMShortResponse == TMResponseOf(ExpandResponses)

\* lines 34-35: timeout, connection error or raise_for_status()
TMRequestFails ==
    /\ tm_pc = "request"
    /\ tm_err' = "RequestException"
    /\ tm_pc' = "raised"
    /\ UNCHANGED <<tm_min_rating, tm_url, tm_band, tm_moves, tm_out, expand_vars>>

\* lines 38-49
TMSelect ==
    /\ tm_pc = "select"
    /\ ~DivisionRaises(tm_moves)
    /\ tm_out' = top_moves(tm_moves)
    /\ tm_pc' = "returned"
    /\ UNCHANGED <<tm_min_rating, tm_url, tm_band, tm_moves, tm_err, expand_vars>>

\* line 42 with total_games = 0
TMDivisionRaises ==
    /\ tm_pc = "select"
    /\ DivisionRaises(tm_moves)
    /\ tm_err' = "ZeroDivisionError"
    /\ tm_pc' = "raised"
    /\ UNCHANGED <<tm_min_rating, tm_url, tm_band, tm_moves, tm_out, expand_vars>>

ExpandIdle ==
    /\ initial_openings = <<>> /\ player = WHITE /\ iterations = 0
    /\ openings = <<>> /\ new_lines = <<>> /\ i = 0 /\ pos = 0 /\ candidates = <<>>
    /\ pc = "idle" /\ result = Nothing /\ failure = None
    /\ prev = Nothing /\ factors = <<>> /\ prev_factors = <<>> /\ calls = <<>>

TMInit == TMIdle /\ ExpandIdle

\* top_moves called with any min_rating
BandNext ==
    \/ TMCallMasters
    \/ TMCallRated
    \/ TMCallRaises
    \/ TMShortResponse
    \/ TMRequestFails
    \/ TMSelect
    \/ TMDivisionRaises

BandSpec == TMInit /\ [][BandNext]_vars

\* top_moves called as expand_openings calls it, on any response
CutoffNext ==
    \/ TMCallFromExpand
    \/ TMResponse
    \/ TMRequestFails
    \/ TMSelect
    \/ TMDivisionRaises

CutoffSpec == TMInit /\ [][CutoffNext]_vars

(***************************************************************************)
(* Properties of top_moves                                                 *)
(***************************************************************************)
\* cumulative share of a sequence of annotated records, in exact hundredths
RECURSIVE CumulativeShare(_)
CumulativeShare(moves) ==
    IF moves = <<>> THEN 0 ELSE Head(moves).percent.k + CumulativeShare(Tail(moves))

\* out is a prefix of the records of moves taken in some descending order of games
DescendingPrefix(out, moves) ==
    /\ Len(out) <= Len(moves)
    /\ \A a \in DOMAIN out : \E k \in DOMAIN moves : out[a] = Annotate(moves)[k]
    /\ \A a, b \in DOMAIN out : a # b => out[a].san # out[b].san
    /\ \A a, b \in DOMAIN out : a < b => out[a].games >= out[b].games
    /\ \A k \in DOMAIN moves :
          (\A a \in DOMAIN out : out[a].san # moves[k].san)
              => Games(moves[k]) <= out[Len(out)].games

\* out is the shortest prefix whose cumulative share reaches the coverage cutoff
ShortestCover(out) ==
    /\ CumulativeShare(out) >= CoveragePercent
    /\ \A n \in 0..(Len(out) - 1) : CumulativeShare(SubSeq(out, 1, n)) < CoveragePercent

\* C4: for a non-empty response with non-zero total games top_moves returns a
\* non-empty prefix of the candidates in descending order of games whose
\* cumulative share (shares rounded to two decimals) is >= 0.60, and no shorter
\* prefix reaches 0.60.
C4_CoverageCutoff ==
    (tm_pc = "returned" /\ tm_moves # <<>>) =>
        /\ tm_out # <<>>
        /\ DescendingPrefix(tm_out, tm_moves)
        /\ ShortestCover(tm_out)

(***************************************************************************)
(* expand_openings                                                         *)
(***************************************************************************)
Lines == SeqsUpTo(Sans, MaxInitPlies)
InitialFrontiers == SeqsUpTo(Lines, MaxInitLines)

\* what top_moves(fen, min_rating=2500) may return to expand_openings
StatisticsResults == {top_moves(resp) : resp \in {r \in ExpandResponses : ~DivisionRaises(r)}}

\* faulty variant: only the first move of the line is pushed
TurnAfterFirstMove(line) == IF line = <<>> THEN WHITE ELSE BLACK

\* board.turn after pushing the moves of line.split() on chess.Board()
Turn(line) == IF Len(line) % 2 = 0 THEN WHITE ELSE BLACK

\* faulty variant: the parent line is dropped
ChildLineRewritten(line, san) == <<san>>

\* line + " " + san
ChildLine(line, san) == Append(line, san)

\* faulty variant: only the top candidate is followed
ChildrenOfTopCandidate(line, cands) == <<Append(line, cands[1].san)>>

\* for move in candidates: new_lines.append(line + " " + move["san"])
Children(line, cands) == [k \in DOMAIN cands |-> ChildLine(line, cands[k].san)]

\* faulty variant: the loop also stops on an empty frontier
LoopExhaustedOrEmpty == i >= iterations \/ openings = <<>>

\* range(iterations) is exhausted
LoopExhausted == i >= iterations

CurrentLine == openings[pos]

StatsCall(returned) ==
    [fn |-> "top_moves", min_rating |-> ExpandMinRating, band |-> Band(ExpandMinRating),
     time_limit |-> 0, returned |-> returned]

EngineCall(time_limit, san) ==
    [fn |-> "get_best_move", min_rating |-> 0, band |-> 0,
     time_limit |-> time_limit, returned |-> <<san>>]

SanList(cands) == [k \in DOMAIN cands |-> cands[k].san]

Init ==
    /\ TMIdle
    /\ initial_openings \in InitialFrontiers
    /\ player \in {WHITE, BLACK}
    /\ iterations \in 0..MaxIter
    /\ openings = initial_openings
    /\ new_lines = <<>> /\ i = 0 /\ pos = 0 /\ candidates = <<>>
    /\ pc = "for_i" /\ result = Nothing /\ failure = None
    /\ prev = Nothing /\ factors = <<>> /\ prev_factors = <<>> /\ calls = <<>>

\* lines 72-73: the next value of range(iterations), new_lines = []
StartIteration ==
    /\ pc = "for_i"
    /\ ~LoopExhausted
    /\ new_lines' = <<>>
    /\ pos' = 1
    /\ pc' = "for_line"
    /\ prev_factors' = factors
    /\ factors' = <<>>
    /\ UNCHANGED <<initial_openings, player, iterations, openings, i, candidates,
                   result, failure, prev, calls, tm_vars>>

\* lines 74-84, opponent to move, the explorer returns at least one candidate
ExpandByStatistics ==
    /\ pc = "for_line"
    /\ pos <= Len(openings)
    /\ Turn(CurrentLine) # player
    /\ ~BandRaises(ExpandMinRating)
    /\ \E returned \in StatisticsResults :
        /\ Len(returned) >= 1
        /\ candidates' = returned
    /\ new_lines' = new_lines \o Children(CurrentLine, candidates')
    /\ factors' = Append(factors, [kind |-> "statistics", n |-> Len(candidates')])
    /\ calls' = <<StatsCall(SanList(candidates'))>>
    /\ pos' = pos + 1
    /\ UNCHANGED <<initial_openings, player, iterations, openings, i, pc,
                   result, failure, prev, prev_factors, tm_vars>>

\* faulty variant: the fallback calls get_best_move(fen) with its default budget
ExpandByFallbackDefaultBudget ==
    /\ pc = "for_line"
    /\ pos <= Len(openings)
    /\ Turn(openings[pos]) # player
    /\ \E returned \in StatisticsResults :
        /\ Len(returned) < 1
        /\ \E san \in Sans :
            /\ candidates' = <<[san |-> san]>>
            /\ calls' = <<StatsCall(SanList(returned)), EngineCall(PlayerTimeLimit, san)>>
    /\ new_lines' = new_lines \o Children(openings[pos], candidates')
    /\ factors' = Append(factors, [kind |-> "fallback", n |-> 1])
    /\ pos' = pos + 1
    /\ UNCHANGED <<initial_openings, player, iterations, openings, i, pc,
                   result, failure, prev, prev_factors, tm_vars>>

\* lines 74-84, opponent to move, the explorer returns no candidate
ExpandByFallback ==
    /\ pc = "for_line"
    /\ pos <= Len(openings)
    /\ Turn(CurrentLine) # player
    /\ ~BandRaises(ExpandMinRating)
    /\ \E returned \in StatisticsResults :
        /\ Len(returned) < 1
        /\ \E san \in Sans :
            /\ candidates' = <<[san |-> san]>>
            /\ calls' = <<StatsCall(SanList(returned)), EngineCall(FallbackTimeLimit, san)>>
    /\ new_lines' = new_lines \o Children(CurrentLine, candidates')
    /\ factors' = Append(factors, [kind |-> "fallback", n |-> 1])
    /\ pos' = pos + 1
    /\ UNCHANGED <<initial_openings, player, iterations, openings, i, pc,
                   result, failure, prev, prev_factors, tm_vars>>

\* faulty variant: the player's turn branches over the statistics like the opponent's
ExpandPlayerMoveBranching ==
    /\ pc = "for_line"
    /\ pos <= Len(openings)
    /\ Turn(openings[pos]) = player
    /\ \E returned \in StatisticsResults :
        /\ Len(returned) >= 1
        /\ candidates' = returned
    /\ new_lines' = new_lines \o Children(openings[pos], candidates')
    /\ calls' = <<StatsCall(SanList(candidates'))>>
    /\ factors' = Append(factors, [kind |-> "player", n |-> Len(candidates')])
    /\ pos' = pos + 1
    /\ UNCHANGED <<initial_openings, player, iterations, openings, i, pc,
                   result, failure, prev, prev_factors, tm_vars>>

\* lines 85-86, player to move
ExpandPlayerMove ==
    /\ pc = "for_line"
    /\ pos <= Len(openings)
    /\ Turn(CurrentLine) = player
    /\ \E san \in Sans :
        /\ new_lines' = Append(new_lines, ChildLine(CurrentLine, san))
        /\ calls' = <<EngineCall(PlayerTimeLimit, san)>>
    /\ factors' = Append(factors, [kind |-> "player", n |-> 1])
    /\ pos' = pos + 1
    /\ UNCHANGED <<initial_openings, player, iterations, openings, i, pc, candidates,
                   result, failure, prev, prev_factors, tm_vars>>

\* faulty variant: the exception is caught per line and the line is skipped
StatisticsFailsLineSkipped ==
    /\ pc = "for_line"
    /\ pos <= Len(openings)
    /\ Turn(openings[pos]) # player
    /\ failure' \in {"RequestException", "ZeroDivisionError"}
    /\ calls' = <<StatsCall(<<>>)>>
    /\ pos' = pos + 1
    /\ UNCHANGED <<initial_openings, player, iterations, openings, new_lines, i, pc,
                   candidates, result, prev, factors, prev_factors, tm_vars>>

\* line 80: requests raises (timeout, connection, raise_for_status) or line 42
\* divides by zero; the exception leaves expand_openings
StatisticsFails ==
    /\ pc = "for_line"
    /\ pos <= Len(openings)
    /\ Turn(CurrentLine) # player
    /\ \E err \in {"RequestException", "ZeroDivisionError"} :
        /\ err = "ZeroDivisionError" => \E resp \in ExpandResponses : DivisionRaises(resp)
        /\ failure' = err
    /\ calls' = <<StatsCall(<<>>)>>
    /\ pc' = "aborted"
    /\ UNCHANGED <<initial_openings, player, iterations, openings, new_lines, i, pos,
                   candidates, result, prev, factors, prev_factors, tm_vars>>

\* line 82: top_moves returned [] and get_best_move raises
FallbackFails ==
    /\ pc = "for_line"
    /\ pos <= Len(openings)
    /\ Turn(CurrentLine) # player
    /\ \E returned \in StatisticsResults :
        /\ Len(returned) < 1
        /\ calls' = <<StatsCall(SanList(returned)), EngineCall(FallbackTimeLimit, 0)>>
    /\ failure' = "EngineError"
    /\ pc' = "aborted"
    /\ UNCHANGED <<initial_openings, player, iterations, openings, new_lines, i, pos,
                   candidates, result, prev, factors, prev_factors, tm_vars>>

\* line 86: get_best_move raises
PlayerMoveFails ==
    /\ pc = "for_line"
    /\ pos <= Len(openings)
    /\ Turn(CurrentLine) = player
    /\ calls' = <<EngineCall(PlayerTimeLimit, 0)>>
    /\ failure' = "EngineError"
    /\ pc' = "aborted"
    /\ UNCHANGED <<initial_openings, player, iterations, openings, new_lines, i, pos,
                   candidates, result, prev, factors, prev_factors, tm_vars>>

\* the lines of a sequence without repetitions, first occurrences kept
RECURSIVE Distinct(_)
Distinct(lines) ==
    IF lines = <<>> THEN <<>>
    ELSE LET front == Distinct(SubSeq(lines, 1, Len(lines) - 1))
             last == lines[Len(lines)]
         IN  IF \E k \in DOMAIN front : front[k] = last THEN front ELSE Append(front, last)

\* faulty variant: the new generation is deduplicated
EndIterationDeduplicated ==
    /\ pc = "for_line"
    /\ pos > Len(openings)
    /\ openings' = Distinct(new_lines)
    /\ prev' = Some(openings)
    /\ i' = i + 1
    /\ pc' = "for_i"
    /\ UNCHANGED <<initial_openings, player, iterations, new_lines, pos, candidates,
                   result, failure, factors, prev_factors, calls, tm_vars>>

\* lines 87-88: the inner loop is over, openings = new_lines
EndIteration ==
    /\ pc = "for_line"
    /\ pos > Len(openings)
    /\ openings' = new_lines
    /\ prev' = Some(openings)
    /\ i' = i + 1
    /\ pc' = "for_i"
    /\ UNCHANGED <<initial_openings, player, iterations, new_lines, pos, candidates,
                   result, failure, factors, prev_factors, calls, tm_vars>>

\* lines 90-91: return openings
Return ==
    /\ pc = "for_i"
    /\ LoopExhausted
    /\ result' = Some(openings)
    /\ pc' = "done"
    /\ UNCHANGED <<initial_openings, player, iterations, openings, new_lines, i, pos,
                   candidates, failure, prev, factors, prev_factors, calls, tm_vars>>

Next ==
    \/ StartIteration
    \/ ExpandByStatistics
    \/ ExpandByFallback
    \/ ExpandPlayerMove
    \/ StatisticsFails
    \/ FallbackFails
    \/ PlayerMoveFails
    \/ EndIteration
    \/ Return

Spec == Init /\ [][Next]_vars

\* the interpreter keeps executing the single thread until it returns or raises
LiveSpec == Spec /\ WF_vars(Next)

(***************************************************************************)
(* Properties of the rating-band choice                                    *)
(***************************************************************************)
BandSet == {RATING_BANDS[n] : n \in DOMAIN RATING_BANDS}
HighestBand == RATING_BANDS[Len(RATING_BANDS)]

\* the request of top_moves went out (whatever came back)
QueryMade == tm_url # None /\ tm_err # "ValueError"

SmallestBandFor(r) ==
    /\ tm_url = LICHESS_DB
    /\ tm_band # Nothing
    /\ tm_band[1] \in BandSet
    /\ tm_band[1] >= r
    /\ \A b \in BandSet : b >= r => tm_band[1] <= b

MastersOrDefault ==
    /\ tm_min_rating = Nothing => (tm_url = LICHESS_MASTERS /\ tm_band = Nothing /\ QueryMade)
    /\ tm_min_rating = Some(0) =>
          (tm_url = LICHESS_DB /\ tm_band = Some(HighestBand) /\ QueryMade)

\* C8 as stated: min_rating omitted queries the masters pool without a band; zero
\* queries the rated pool with band 2500; every other min_rating queries the rated
\* pool with the smallest band >= min_rating, so a band is always selected and a
\* query is always made.
C8_AlwaysABand ==
    tm_pc # "idle" =>
        /\ MastersOrDefault
        /\ (tm_min_rating # Nothing /\ tm_min_rating # Some(0)) =>
              (SmallestBandFor(tm_min_rating[1]) /\ QueryMade)

\* C8 amended: as above for every min_rating up to the highest band; for a
\* min_rating above the highest band no band qualifies, top_moves raises
\* ValueError and no query is made.
C8_SmallestBandOrRaise ==
    tm_pc # "idle" =>
        /\ MastersOrDefault
        /\ (tm_min_rating # Nothing /\ tm_min_rating # Some(0)
                /\ tm_min_rating[1] <= HighestBand) =>
              (SmallestBandFor(tm_min_rating[1]) /\ QueryMade)
        /\ (tm_min_rating # Nothing /\ tm_min_rating[1] > HighestBand) =>
              (tm_pc = "raised" /\ tm_err = "ValueError" /\ tm_url = None
                  /\ tm_band = Nothing)

C8_Witness ==
    /\ tm_pc = "returned"
    /\ tm_min_rating = Some(RATING_BANDS[1] + 1)
    /\ tm_band = Some(RATING_BANDS[2])
    /\ tm_out # <<>>

(***************************************************************************)
(* Properties of expand_openings                                           *)
(***************************************************************************)
\* a line of the current generation has just been expanded (and no exception raised)
LineExpanded == pc = "for_line" /\ pos <= Len(openings) /\ pos' = pos + 1

IsEngineCall(c, time_limit) ==
    c.fn = "get_best_move" /\ c.time_limit = time_limit /\ Len(c.returned) = 1

IsStatsCall(c) == c.fn = "top_moves" /\ c.min_rating = ExpandMinRating

LastMoves(lines) == [k \in DOMAIN lines |-> lines[k][Len(lines[k])]]

C2_PlayerLineNarrows ==
    [][(LineExpanded /\ Turn(CurrentLine) = player) =>
          /\ Len(calls') = 1
          /\ IsEngineCall(calls'[1], PlayerTimeLimit)
          /\ new_lines' = new_lines \o <<CurrentLine \o calls'[1].returned>>]_vars

C2_Witness ==
    /\ pc = "for_line" /\ pos > 1 /\ Turn(openings[pos - 1]) = player
    /\ Len(calls) = 1 /\ IsEngineCall(calls[1], PlayerTimeLimit)
    /\ Len(new_lines) = pos - 1

\* C3: expanding an opponent-turn line for which top_moves returns no candidate
\* calls the engine exactly once, with a 1.0 second budget, and appends exactly
\* one child (the line plus the engine's move); when top_moves returns candidates
\* the engine is not called.
C3_FallbackOnlyWhenEmpty ==
    [][(LineExpanded /\ Turn(CurrentLine) # player) =>
          /\ Len(calls') >= 1
          /\ IsStatsCall(calls'[1])
          /\ IF calls'[1].returned = <<>>
             THEN /\ Len(calls') = 2
                  /\ IsEngineCall(calls'[2], FallbackTimeLimit)
                  /\ new_lines' = new_lines \o <<CurrentLine \o calls'[2].returned>>
             ELSE Len(calls') = 1]_vars

C3_Witness ==
    /\ pc = "for_line" /\ pos > 1 /\ Turn(openings[pos - 1]) # player
    /\ Len(calls) = 2 /\ calls[1].returned = <<>>
    /\ IsEngineCall(calls[2], FallbackTimeLimit)
    /\ new_lines # <<>>

\* child is parent with exactly one move appended
Extends(child, parent, plies) ==
    /\ Len(child) = Len(parent) + plies
    /\ SubSeq(child, 1, Len(parent)) = parent

\* C5: every line of a generation is a line of the previous generation plus
\* exactly one move, and after i iterations every line is a line of the initial
\* frontier followed by exactly i further moves.
C5_Lineage ==
    pc # "idle" =>
        /\ prev # Nothing =>
              \A n \in DOMAIN openings : \E m \in DOMAIN prev[1] :
                  Extends(openings[n], prev[1][m], 1)
        /\ \A n \in DOMAIN openings : \E m \in DOMAIN initial_openings :
              Extends(openings[n], initial_openings[m], i)
        /\ \A n \in DOMAIN new_lines : \E m \in DOMAIN openings :
              Extends(new_lines[n], openings[m], IF pc \in {"for_line", "aborted"} THEN 1 ELSE 0)

C5_Witness ==
    /\ pc = "done" /\ i = 2 /\ Len(openings) >= 2
    /\ \E m \in DOMAIN initial_openings : Len(openings[1]) = Len(initial_openings[m]) + 2

\* C6: without a failing call expand_openings terminates, performs exactly
\* `iterations` iterations whatever the frontier looks like, and returns the last
\* generation (the initial frontier when iterations = 0).
C6_FixedBudget ==
    /\ [](result # Nothing =>
            /\ pc = "done"
            /\ i = iterations
            /\ result = Some(openings)
            /\ iterations = 0 => result = Some(initial_openings))
    /\ <>(pc = "done" \/ failure # None)

C6_Witness ==
    /\ pc = "done" /\ iterations = MaxIter /\ i = MaxIter
    /\ Len(result[1]) = Len(initial_openings)
    /\ result[1] # <<>>

\* C7: a failing statistics query or engine evaluation aborts the run at once:
\* nothing is retried, nothing further is processed and nothing is returned.
C7_FailureAborts ==
    /\ [](failure # None => (pc = "aborted" /\ result = Nothing))
    /\ [][failure # None => UNCHANGED vars]_vars

C7_Witness ==
    /\ failure # None /\ pc = "aborted" /\ result = Nothing
    /\ i >= 1 /\ new_lines # <<>> /\ pos <= Len(openings)

RECURSIVE SumFactors(_)
SumFactors(fs) == IF fs = <<>> THEN 0 ELSE Head(fs).n + SumFactors(Tail(fs))

\* C9: after an iteration the frontier size is the sum over the previous
\* generation's lines of their branch factors (candidates returned, 1 for a
\* fallback, 1 for a player-turn line), duplicates included; so the size never
\* decreases and a non-empty frontier never becomes empty.
C9_FrontierSize ==
    (pc \in {"for_i", "done"} /\ prev # Nothing) =>
        /\ Len(factors) = Len(prev[1])
        /\ \A n \in DOMAIN factors :
              /\ factors[n].kind = "player" <=> Turn(prev[1][n]) = player
              /\ factors[n].kind \in {"player", "fallback"} => factors[n].n = 1
              /\ factors[n].n >= 1
        /\ Len(openings) = SumFactors(factors)
        /\ Len(openings) >= Len(prev[1])
        /\ prev[1] # <<>> => openings # <<>>

C9_Witness ==
    /\ pc = "for_i" /\ prev # Nothing
    /\ Len(openings) > Len(prev[1])
    /\ \E a, b \in DOMAIN openings : a # b /\ openings[a] = openings[b]

SameLength(lines) == \A a, b \in DOMAIN lines : Len(lines[a]) = Len(lines[b])

Narrowing(fs) == \A n \in DOMAIN fs : fs[n].kind = "player"
Branching(fs) == \A n \in DOMAIN fs : fs[n].kind # "player"

\* C10: when the initial lines all have the same number of plies, every
\* generation has lines of one length, every iteration is entirely branching
\* (opponent to move) or entirely narrowing (player to move), consecutive
\* iterations are of different kinds, and a narrowing iteration keeps the
\* frontier size.
C10_Alternation ==
    (pc # "idle" /\ SameLength(initial_openings)) =>
        /\ SameLength(openings)
        /\ SameLength(new_lines)
        /\ Narrowing(factors) \/ Branching(factors)
        /\ (factors # <<>> /\ prev_factors # <<>>) =>
              (Narrowing(factors) <=> Branching(prev_factors))
        /\ (pc \in {"for_i", "done"} /\ prev # Nothing /\ Narrowing(factors)) =>
              Len(openings) = Len(prev[1])

C10_Witness ==
    /\ pc = "done" /\ i = 2 /\ Len(initial_openings) = 2
    /\ SameLength(initial_openings)
    /\ Narrowing(factors) /\ Branching(prev_factors)
    /\ Len(openings) > Len(initial_openings)

====
